---- MODULE Spec2Model ----
(***************************************************************************)
(* The notification lifecycle of src/src/UI/Components/Notification.tsx:   *)
(* the provider's notifications array, the expiry timers armed by          *)
(* addNotification, the clock whose reading names each notification, and   *)
(* the grouping NotificationContainer renders from the array.              *)
(*                                                                         *)
(* An optional JavaScript value (an omitted argument, an omitted property) *)
(* is a sequence of length 0 (undefined) or 1 (the value).                 *)
(***************************************************************************)
EXTENDS Integers, Sequences, FiniteSets, TLC

\* ------------------------------------------------------------------ bounds

\* Largest reading of Date.now() (milliseconds since the provider mounted).
MaxTime == 1
\* Number of addNotification calls in a run of the lifecycle specification.
MaxAdds == 3
\* Largest reading of Date.now() and number of addNotification calls in a run
\* of the rendering specification.
MaxRenderTime == 1
MaxRenderAdds == 7
\* Number of addNotification calls in a run of the grouping specification.
MaxGroupAdds == 2
\* Largest reading of Date.now() and number of addNotification calls in a run
\* of the expiry specification.
MaxExpiryTime == 2
MaxExpiryAdds == 6

\* ------------------------------------------------------------ JavaScript

Undefined == <<>>

Some(x) == <<x>>

\* options?.field
Chain(options, field) ==
    IF options = Undefined THEN Undefined ELSE options[1][field]

\* ToBoolean of an optional number: undefined and 0 are falsy
Truthy(m) == m # Undefined /\ m[1] # 0

\* m || dflt, for an optional string
OrElse(m, dflt) == IF m = Undefined \/ m[1] = "" THEN dflt ELSE m[1]

\* `notification_${Date.now()}`
MakeId(t) == "notification_" \o ToString(t)

\* The longest delay setTimeout takes: 2^31 - 1 milliseconds
TimerMax == 2147483647

\* The delay setTimeout waits for, in whole milliseconds: a delay below 0 or
\* above TimerMax is not waited for at all. (Durations here are whole numbers;
\* the runtime drops or rounds the fraction of any other.)
TimerDelay(duration) ==
    IF duration < 0 \/ duration > TimerMax THEN 0 ELSE duration

\* The clock that names a notification and the clock that runs its timer are
\* not the same: Date.now() can read one millisecond less than the delay, and
\* never more than that, when the callback starts
TimerSlack == 1

\* --------------------------------------------------------------- inputs

Maybe(S) == {Undefined} \cup {Some(x) : x \in S}

OptionsOver(D, V, T, P) ==
    {Undefined} \cup
    {Some([duration |-> d, variant |-> v, type |-> t, position |-> p]) :
        d \in Maybe(D), v \in Maybe(V), t \in Maybe(T), p \in Maybe(P)}

\* The ids removeNotification is called with: every id the clock can produce
\* and one that no notification ever has.
IdInputs(maxTime) == {MakeId(t) : t \in 0..maxTime} \cup {"notification_none"}

\* Calls of the lifecycle specification
LifeMessages == {"Saved"}
LifeOptions ==
    {Undefined} \cup
    {Some([duration |-> d, variant |-> Some("toast"), type |-> Undefined,
           position |-> Undefined]) : d \in Maybe({-1, 0, 1})}

\* Calls of the ordering specification: two messages, with or without expiry
OrderMessages == {"Saved", "Sent"}
OrderOptions ==
    {Undefined,
     Some([duration |-> Some(1), variant |-> Some("toast"), type |-> Undefined,
           position |-> Undefined])}

\* Calls of the expiry specification: stacked notifications that expire
ExpiryOptions ==
    {Some([duration |-> Some(1), variant |-> Some("sooner"), type |-> Undefined,
           position |-> Undefined])}

\* Calls of the rendering specification
RenderOptions ==
    {Some([duration |-> Undefined, variant |-> Some(v), type |-> Undefined,
           position |-> Undefined]) : v \in {"toast", "sooner"}}

\* Calls of the grouping specification: every way to give or omit variant,
\* type and position, for each a value the component does not know, and a
\* position that names a property of Object.prototype
GroupOptions ==
    OptionsOver({}, {"toast", "sooner", "banner", "modal"}, {"success", "info"},
                {"top-left", "middle", "constructor"})

\* ---------------------------------------------------------------- state

VARIABLES
    notifications,  \* the provider's state: the array of {id, message, options}
    timers,         \* pending setTimeout callbacks: [handle, id, due]
    now,            \* the reading of Date.now()
    calls,          \* history: calls[i] is the number of the addNotification
                    \* call that appended notifications[i]
    adds,           \* history: number of addNotification calls so far
    removed,        \* history: number of removals that found their id present
    last,           \* history: the operation that led to this state, and
                    \* whether its removal found its id in the array
    retired,        \* history: the ids that a removal has taken out of the array
    hook            \* what the latest useNotification() call came to

vars == <<notifications, timers, now, calls, adds, removed, last, retired, hook>>

\* ------------------------------------------------------------ rendering

\* .slice(0, 5): only 5 sooner notifications are stacked
SoonerCap == 5

positionClasses ==
    [x \in {"top-right", "top-left", "bottom-right", "bottom-left", "center"} |->
        CASE x = "top-right" -> "fixed top-5 right-5"
          [] x = "top-left" -> "fixed top-5 left-5"
          [] x = "bottom-right" -> "fixed bottom-5 right-5"
          [] x = "bottom-left" -> "fixed bottom-5 left-5"
          [] x = "center" -> "fixed top-5 left-1/2 -translate-x-1/2"]

typeClasses ==
    [x \in {"default", "success", "error", "warning"} |->
        CASE x = "default" -> "bg-gray-200 text-black"
          [] x = "success" -> "bg-green-500 text-white"
          [] x = "error" -> "bg-red-500 text-white"
          [] x = "warning" -> "bg-yellow-500 text-black"]

variantClasses ==
    [x \in {"toast", "sooner", "banner"} |->
        CASE x = "toast" -> "shadow-lg"
          [] x = "sooner" -> "shadow-md"
          [] x = "banner" -> "w-full"]

\* The tables are object literals, so a key they do not have themselves is
\* looked up in Object.prototype: these are its property names
ObjectPrototype ==
    {"constructor", "hasOwnProperty", "isPrototypeOf", "propertyIsEnumerable",
     "toLocaleString", "toString", "valueOf", "__proto__", "__defineGetter__",
     "__defineSetter__", "__lookupGetter__", "__lookupSetter__"}

\* The function (for __proto__, the object) that Object.prototype holds under
\* a key; it is no class string, and is written here by its name
Inherited(key) == "Object.prototype." \o key

\* table[key]: the table's own entry, else what Object.prototype provides,
\* else undefined
Lookup(table, key) ==
    IF key \in DOMAIN table THEN Some(table[key])
    ELSE IF key \in ObjectPrototype THEN Some(Inherited(key))
    ELSE Undefined

\* array.slice(0, end)
Slice0(seq, end) == SubSeq(seq, 1, IF Len(seq) < end THEN Len(seq) ELSE end)

\* notifications.filter((n) => n.options?.variant === "toast")
toastsOf(ns) ==
    SelectSeq(ns, LAMBDA n : Chain(n.options, "variant") = Some("toast"))

\* The newest five instead of the oldest: .slice(-5)
soonersOfNewest(ns) ==
    LET all == SelectSeq(ns, LAMBDA n : Chain(n.options, "variant") = Some("sooner"))
    IN  SubSeq(all, IF Len(all) > SoonerCap THEN Len(all) - SoonerCap + 1 ELSE 1,
               Len(all))

\* notifications.filter((n) => n.options?.variant === "sooner").slice(0, 5)
soonersOf(ns) ==
    Slice0(SelectSeq(ns, LAMBDA n : Chain(n.options, "variant") = Some("sooner")),
           SoonerCap)

\* The element NotificationItem returns: its type and variant classes, its
\* message, and the id its close button removes
NotificationItem(id, message, options) ==
    [typeClass |-> Lookup(typeClasses, OrElse(Chain(options, "type"), "default")),
     variantClass |->
        Lookup(variantClasses, OrElse(Chain(options, "variant"), "toast")),
     message |-> message,
     closes |-> id]

\* The wrapper of one toast: toasts.map((notification) => <div ...>)
ToastElement(notification) ==
    [key |-> notification.id,
     anchor |-> Lookup(positionClasses,
                       OrElse(Chain(notification.options, "position"), "top-right")),
     item |-> NotificationItem(notification.id, notification.message,
                               notification.options)]

\* The wrapper of one stacked notification:
\* sooners.map((notification, index) => <div ...>)
SoonerElement(notification, index) ==
    [key |-> notification.id,
     index |-> index,
     item |-> NotificationItem(notification.id, notification.message,
                               notification.options)]

\* sooners[0]?.options?.position
FirstSoonerPosition(sooners) ==
    IF sooners = <<>> THEN Undefined ELSE Chain(sooners[1].options, "position")

RECURSIVE MapToasts(_)
MapToasts(toasts) ==
    IF toasts = <<>> THEN <<>>
    ELSE <<ToastElement(Head(toasts))>> \o MapToasts(Tail(toasts))

RECURSIVE MapSooners(_, _)
MapSooners(sooners, index) ==
    IF sooners = <<>> THEN <<>>
    ELSE <<SoonerElement(Head(sooners), index)>>
            \o MapSooners(Tail(sooners), index + 1)

\* The elements NotificationContainer returns: one positioned wrapper per
\* toast, and one positioned wrapper holding the stacked sooner notifications
NotificationContainer(ns) ==
    [toasts |-> MapToasts(toastsOf(ns)),
     soonerAnchor |->
        Lookup(positionClasses,
               OrElse(FirstSoonerPosition(soonersOf(ns)), "top-right")),
     sooners |-> MapSooners(soonersOf(ns), 0)]

\* What the provider shows in the current state
Rendered == NotificationContainer(notifications)

\* The ids of the close buttons on screen
ButtonsOf(elements) == {elements[i].item.closes : i \in DOMAIN elements}

CloseButtons ==
    LET shown == Rendered
    IN  ButtonsOf(shown.toasts) \cup ButtonsOf(shown.sooners)

\* ------------------------------------------------------- the provider

\* Removal by position: prev.splice(prev.findIndex(...), 1), which takes the
\* last notification when findIndex returns -1
removeNotificationSplice(prev, id) ==
    IF \E i \in 1..Len(prev) : prev[i].id = id
    THEN LET first == CHOOSE i \in 1..Len(prev) :
                        /\ prev[i].id = id
                        /\ \A j \in 1..(i - 1) : prev[j].id # id
         IN  SubSeq(prev, 1, first - 1) \o SubSeq(prev, first + 1, Len(prev))
    ELSE SubSeq(prev, 1, Len(prev) - 1)

\* prev.filter((notif) => notif.id !== id)
removeNotification(prev, id) ==
    SelectSeq(prev, LAMBDA notif : notif.id # id)

\* The new record first: [{ id, message, options }, ...prev]
prependNotification(prev, id, message, options) ==
    <<[id |-> id, message |-> message, options |-> options]>> \o prev

\* [...prev, { id, message, options }]
appendNotification(prev, id, message, options) ==
    Append(prev, [id |-> id, message |-> message, options |-> options])

\* A threshold off by one: if (options?.duration > 1)
armsTimerAboveOne(options) ==
    /\ Chain(options, "duration") # Undefined
    /\ Chain(options, "duration")[1] > 1

\* if (options?.duration)
armsTimer(options) == Truthy(Chain(options, "duration"))

\* The members of a sequence at the positions in keep, in order
RECURSIVE KeepAt(_, _, _)
KeepAt(seq, keep, i) ==
    IF i > Len(seq) THEN <<>>
    ELSE (IF i \in keep THEN <<seq[i]>> ELSE <<>>) \o KeepAt(seq, keep, i + 1)

Kept(id) == {i \in 1..Len(notifications) : notifications[i].id # id}

Present(id) == \E i \in 1..Len(notifications) : notifications[i].id = id

\* The state change of one removeNotification(id), whoever calls it
Removal(id) ==
    /\ notifications' = removeNotification(notifications, id)
    /\ calls' = KeepAt(calls, Kept(id), 1)
    /\ removed' = IF Present(id) THEN removed + 1 ELSE removed
    /\ retired' = IF Present(id) THEN retired \cup {id} ELSE retired

\* addNotification(message, options). The two guards bound the run: at most
\* maxAdds calls, and no timer due after the last reading of the clock.
AddNotification(message, options, maxAdds, maxTime) ==
    /\ adds < maxAdds
    /\ armsTimer(options) => now + TimerDelay(options[1].duration[1]) <= maxTime
    /\ LET id == MakeId(now) IN
        /\ notifications' = appendNotification(notifications, id, message, options)
        /\ calls' = Append(calls, adds + 1)
        /\ timers' =
            IF armsTimer(options)
            THEN timers \cup {[handle |-> adds + 1, id |-> id,
                               due |-> now + TimerDelay(options[1].duration[1])]}
            ELSE timers
        /\ last' = [op |-> "add", found |-> FALSE]
    /\ adds' = adds + 1
    /\ UNCHANGED <<now, removed, retired, hook>>

\* A removal that also cancels the timers of the id: clearTimeout on remove
RemoveNotificationCancelling(id) ==
    /\ Removal(id)
    /\ timers' = {t \in timers : t.id # id}
    /\ last' = [op |-> "remove", found |-> Present(id)]
    /\ UNCHANGED <<now, adds, hook>>

\* removeNotification(id) called through the context
RemoveNotification(id) ==
    /\ Removal(id)
    /\ last' = [op |-> "remove", found |-> Present(id)]
    /\ UNCHANGED <<timers, now, adds, hook>>

\* Expiry tied to what is on screen: the callback removes the notification
\* only if an item shows it
FireTimerIfShown(t) ==
    /\ t \in timers
    /\ now >= t.due - TimerSlack
    /\ IF t.id \in CloseButtons THEN Removal(t.id)
       ELSE UNCHANGED <<notifications, calls, removed, retired>>
    /\ timers' = timers \ {t}
    /\ last' = [op |-> "fire", found |-> Present(t.id)]
    /\ UNCHANGED <<now, adds, hook>>

\* A pending timer's callback runs, () => removeNotification(id): when the
\* delay has passed, which the clock may show as one millisecond less
FireTimer(t) ==
    /\ t \in timers
    /\ now >= t.due - TimerSlack
    /\ Removal(t.id)
    /\ timers' = timers \ {t}
    /\ last' = [op |-> "fire", found |-> Present(t.id)]
    /\ UNCHANGED <<now, adds, hook>>

\* The close button of a notification on screen is pressed:
\* onClick={() => removeNotification(id)}
Dismiss ==
    \E id \in CloseButtons :
        /\ Removal(id)
        /\ last' = [op |-> "dismiss", found |-> Present(id)]
        /\ UNCHANGED <<timers, now, adds, hook>>

\* A millisecond passes
Tick(maxTime) ==
    /\ now < maxTime
    /\ now' = now + 1
    /\ last' = [op |-> "tick", found |-> FALSE]
    /\ UNCHANGED <<notifications, timers, calls, adds, removed, retired, hook>>

\* The value of NotificationContext where a component reads it: the provider's
\* { addNotification, removeNotification } below a NotificationProvider, the
\* default of createContext (undefined) elsewhere
NotificationContext(inProvider) ==
    IF inProvider THEN Some({"addNotification", "removeNotification"})
    ELSE Undefined

\* A hook that hands on whatever the context holds: return context
useNotificationUnchecked(context) ==
    [threw |-> Undefined, returned |-> context]

\* useNotification(): throws when the context is undefined, returns it otherwise
useNotification(context) ==
    IF context = Undefined
    THEN [threw |-> Some("useNotification must be used within a NotificationProvider"),
          returned |-> Undefined]
    ELSE [threw |-> Undefined, returned |-> context]

\* A component calls useNotification(), below a provider or not
UseNotification(inProvider) ==
    /\ hook' = [inProvider |-> Some(inProvider),
                result |-> useNotification(NotificationContext(inProvider))]
    /\ last' = [op |-> "use", found |-> FALSE]
    /\ UNCHANGED <<notifications, timers, now, calls, adds, removed, retired>>

Init ==
    /\ notifications = <<>>
    /\ timers = {}
    /\ now = 0
    /\ calls = <<>>
    /\ adds = 0
    /\ removed = 0
    /\ last = [op |-> "mount", found |-> FALSE]
    /\ retired = {}
    /\ hook = [inProvider |-> Undefined,
               result |-> [threw |-> Undefined, returned |-> Undefined]]

Add == \E message \in LifeMessages, options \in LifeOptions :
            AddNotification(message, options, MaxAdds, MaxTime)

Remove == \E id \in IdInputs(MaxTime) : RemoveNotification(id)

Fire == \E t \in timers : FireTimer(t)

Pass == Tick(MaxTime)

Next == Add \/ Remove \/ Dismiss \/ Fire \/ Pass

Spec == Init /\ [][Next]_vars

\* The rendering specification: many notifications, none of them expiring
RenderAdd == \E message \in LifeMessages, options \in RenderOptions :
            AddNotification(message, options, MaxRenderAdds, MaxRenderTime)

RenderRemove == \E id \in IdInputs(MaxRenderTime) : RemoveNotification(id)

RenderPass == Tick(MaxRenderTime)

RenderNext == RenderAdd \/ RenderRemove \/ Dismiss \/ RenderPass

RenderSpec == Init /\ [][RenderNext]_vars

\* The grouping specification: few notifications, of every shape
GroupAdd == \E message \in LifeMessages, options \in GroupOptions :
            AddNotification(message, options, MaxGroupAdds, MaxRenderTime)

GroupNext == GroupAdd \/ RenderRemove \/ Dismiss \/ RenderPass

GroupSpec == Init /\ [][GroupNext]_vars

\* The ordering specification: the lifecycle with messages that differ
OrderAdd == \E message \in OrderMessages, options \in OrderOptions :
            AddNotification(message, options, MaxAdds, MaxTime)

OrderNext == OrderAdd \/ Remove \/ Dismiss \/ Fire \/ Pass

OrderSpec == Init /\ [][OrderNext]_vars

\* The hook specification: components read the context while the provider runs
Use == \E inProvider \in BOOLEAN : UseNotification(inProvider)

HookNext == OrderNext \/ Use

HookSpec == Init /\ [][HookNext]_vars

\* The expiry specification: more stacked notifications than the window shows
ExpiryAdd == \E message \in LifeMessages, options \in ExpiryOptions :
            AddNotification(message, options, MaxExpiryAdds, MaxExpiryTime)

ExpiryRemove == \E id \in IdInputs(MaxExpiryTime) : RemoveNotification(id)

ExpiryPass == Tick(MaxExpiryTime)

ExpiryNext == ExpiryAdd \/ ExpiryRemove \/ Dismiss \/ Fire \/ ExpiryPass

ExpirySpec == Init /\ [][ExpiryNext]_vars

\* The lifecycle under the scheduling of the event loop: time passes, and a
\* timer that is due runs
FairSpec == Spec /\ WF_vars(Pass) /\ WF_vars(Fire)

\* ------------------------------------------------------------- properties

Indices == 1..Len(notifications)

\* The notification appended by call number c is in the array
Live(c) == \E i \in Indices : calls[i] = c

DurationOf(notification) == Chain(notification.options, "duration")

VariantOf(notification) == Chain(notification.options, "variant")

\* C1: no two notifications in the array share an id.
C1_UniqueIds ==
    \A i, j \in Indices : i # j => notifications[i].id # notifications[j].id

\* C2: the size of the array is the number of addNotification calls minus the
\* number of removals that found their id present.
C2_SizeIsAddsMinusRemovals == Len(notifications) = adds - removed

\* C3: a notification with no duration or duration 0 leaves the array only in
\* an explicit removal (removeNotification or a dismiss), never when a timer
\* fires.
C3_PersistsUntilRemoved ==
    [][\A i \in Indices :
        (/\ DurationOf(notifications[i]) \in {Undefined, Some(0)}
         /\ ~Live(calls[i])')
        => last'.op \in {"remove", "dismiss"}]_vars
\* The notification of call c is in the array and was given a duration > 0
Expiring(c) ==
    \E i \in Indices :
        /\ calls[i] = c
        /\ DurationOf(notifications[i]) # Undefined
        /\ DurationOf(notifications[i])[1] > 0

\* The timer armed by call c has not run yet
Pending(c) == \E t \in timers : t.handle = c

\* C4: a notification added with duration d > 0 is in the array right after
\* addNotification returns, is no longer in it once its timer has fired, and
\* its timer does fire: again and again the array holds no notification with a
\* duration > 0, so each of them is eventually absent.
C4_PresentThenExpired ==
    /\ [](last.op = "add" =>
            /\ notifications # <<>>
            /\ notifications[Len(notifications)].id = MakeId(now)
            /\ calls[Len(notifications)] = adds)
    /\ [](\A c \in 1..MaxAdds : Expiring(c) => Pending(c))
    /\ []<>(\A c \in 1..MaxAdds : ~Expiring(c))

\* A notification with duration > 0 has expired: it was added, time passed,
\* its timer ran and found it, and it is gone
C4_Witness ==
    /\ last.op = "fire"
    /\ last.found
    /\ now > 0
    /\ notifications = <<>>
    /\ timers = {}
    /\ adds = 1
\* C5: removeNotification(id) for an id that no notification in the array has
\* returns the array as it is, and removing an id twice gives what removing it
\* once gives.
C5_RemoveAbsentIsNoOp ==
    \A id \in IdInputs(MaxTime) :
        /\ ~Present(id) => removeNotification(notifications, id) = notifications
        /\ removeNotification(removeNotification(notifications, id), id)
                = removeNotification(notifications, id)

\* removeNotification was called with an id that none of the notifications
\* in the array had
C5_Witness ==
    /\ last.op = "remove"
    /\ ~last.found
    /\ Len(notifications) >= 2
\* The positions in the array of the notifications of variant sooner
SoonerIndices == {i \in Indices : VariantOf(notifications[i]) = Some("sooner")}

Min(a, b) == IF a < b THEN a ELSE b

\* C6: the rendered sooner group is the first min(5, n) sooner notifications
\* of the array in insertion order: its k-th element shows the sooner
\* notification that exactly k - 1 sooner notifications precede.
C6_SoonerWindow ==
    LET group == Rendered.sooners
        among == SoonerIndices
    IN  /\ Len(group) = Min(5, Cardinality(among))
        /\ \A i \in among :
            LET rank == Cardinality({j \in among : j < i})
            IN  rank < 5 =>
                    /\ group[rank + 1].key = notifications[i].id
                    /\ group[rank + 1].item.message = notifications[i].message

\* More sooner notifications than the window holds, after a removal that
\* moved the window: the first five of six are shown
C6_Witness ==
    /\ last.op \in {"remove", "dismiss"}
    /\ last.found
    /\ Cardinality(SoonerIndices) = 6
    /\ Len(soonersOf(notifications)) = 5
\* C7: every notification of variant toast or banner is rendered as an item
\* of its own, anchored at its own position.
C7_ToastsAndBannersRendered ==
    LET shown == Rendered.toasts
    IN  \A i \in Indices :
            VariantOf(notifications[i]) \in {Some("toast"), Some("banner")} =>
                \E k \in DOMAIN shown :
                    /\ shown[k].key = notifications[i].id
                    /\ shown[k].item.message = notifications[i].message
                    /\ shown[k].anchor =
                        Lookup(positionClasses,
                               OrElse(Chain(notifications[i].options, "position"),
                                      "top-right"))

\* The options with every omitted property given its documented default
WithDefaults(options) ==
    LET given == IF options = Undefined
                 THEN [duration |-> Undefined, variant |-> Undefined,
                       type |-> Undefined, position |-> Undefined]
                 ELSE options[1]
    IN  Some([duration |-> given.duration,
              variant |-> Some(OrElse(given.variant, "toast")),
              type |-> Some(OrElse(given.type, "default")),
              position |-> Some(OrElse(given.position, "top-right"))])

\* C8: the array renders as the same array with the defaults (variant toast,
\* type default, position top-right) written out in every notification.
C8_OmittedMeansDefault ==
    NotificationContainer(
        [i \in Indices |->
            [notifications[i] EXCEPT !.options = WithDefaults(@)]]) = Rendered

\* C9: addNotification arms one timer, for the new notification's id, when
\* the duration is present and > 0, and leaves the timers alone otherwise.
C9_TimerOnlyForPositiveDuration ==
    [][last'.op = "add" =>
        LET new == notifications'[Len(notifications')]
        IN  IF DurationOf(new) # Undefined /\ DurationOf(new)[1] > 0
            THEN \E t \in timers' :
                    /\ t \notin timers
                    /\ timers' = timers \cup {t}
                    /\ t.id = new.id
            ELSE timers' = timers]_vars

\* C10: a timer that fires after its notification was removed leaves the
\* array as it is.
C10_LateTimerIsNoOp ==
    [][last'.op = "fire" =>
        \A t \in timers \ timers' :
            ~Live(t.handle) => notifications' = notifications]_vars
\* C11: useNotification() called outside a NotificationProvider throws and
\* returns nothing; called inside one it returns the provider's
\* addNotification/removeNotification pair and throws nothing.
C11_HookThrowsOutsideProvider ==
    /\ hook.inProvider = Some(FALSE) =>
            /\ hook.result.threw # Undefined
            /\ hook.result.returned = Undefined
    /\ hook.inProvider = Some(TRUE) =>
            /\ hook.result.threw = Undefined
            /\ hook.result.returned
                    = Some({"addNotification", "removeNotification"})

\* The hook was called outside a provider, after it had been of use inside:
\* there are notifications
C11_Witness ==
    /\ last.op = "use"
    /\ hook.inProvider = Some(FALSE)
    /\ notifications # <<>>
\* C12: addNotification puts one record, with the message and the options it
\* was given, after the records of the array, which stay as they are; a
\* removal leaves a subsequence of the array: the records it keeps are
\* unchanged and in the same order. So the array is in call order.
C12_AppendAndKeepOrder ==
    [][/\ \A message \in OrderMessages, options \in OrderOptions :
            AddNotification(message, options, MaxAdds, MaxTime) =>
                notifications' = notifications \o
                    <<[id |-> MakeId(now), message |-> message,
                       options |-> options]>>
       /\ last'.op \in {"remove", "dismiss", "fire"} =>
            \E keep \in SUBSET Indices :
                notifications' = KeepAt(notifications, keep, 1)]_vars

\* A record was added behind a different one, after a removal
C12_Witness ==
    /\ last.op = "add"
    /\ removed > 0
    /\ Len(notifications) >= 2
    /\ notifications[1].message # notifications[2].message
\* The position a notification asks for
PositionOf(notification) ==
    OrElse(Chain(notification.options, "position"), "top-right")

\* C13: a rendered sooner notification is anchored at its own position, and
\* its stacking index is the number of rendered sooner notifications before
\* it that have the same position.
C13_StackIndexPerPosition ==
    LET shown == Rendered
        window == soonersOf(notifications)
    IN  \A k \in DOMAIN shown.sooners :
            /\ shown.soonerAnchor = Lookup(positionClasses, PositionOf(window[k]))
            /\ shown.sooners[k].index =
                    Cardinality({j \in 1..(k - 1) :
                                    PositionOf(window[j]) = PositionOf(window[k])})

\* An optional value, with the default in place of a value the table lacks
Recognized(m, table, dflt) ==
    IF m # Undefined /\ m[1] \notin DOMAIN table THEN Some(dflt) ELSE m

\* The options with every unrecognized variant, type and position replaced by
\* the documented default
RecognizedOptions(options) ==
    IF options = Undefined THEN Undefined
    ELSE Some([duration |-> options[1].duration,
               variant |-> Recognized(options[1].variant, variantClasses, "toast"),
               type |-> Recognized(options[1].type, typeClasses, "default"),
               position |->
                    Recognized(options[1].position, positionClasses, "top-right")])

\* C14: the array renders as the same array with every unrecognized variant,
\* type and position replaced by its default (toast, default, top-right).
C14_UnknownValuesRenderAsDefaults ==
    NotificationContainer(
        [i \in Indices |->
            [notifications[i] EXCEPT !.options = RecognizedOptions(@)]]) = Rendered
\* C15: an id that a removal has taken out of the array is never the id of a
\* notification in the array again.
C15_RemovedIsTerminal ==
    \A i \in Indices : notifications[i].id \notin retired

\* C17: one removal, by a timer, a removeNotification call or a dismiss,
\* takes at most one notification out of the array.
C17_OneRemovalOneNotification ==
    [][Len(notifications') >= Len(notifications) - 1]_vars
\* C16: a removeNotification call or a dismiss leaves the pending timers as
\* they are; a timer is armed only by the addNotification call it belongs to,
\* leaves only by firing, one at a time, and every armed timer does fire.
C16_RemovalLeavesTimers ==
    /\ [][/\ last'.op \in {"remove", "dismiss"} => timers' = timers
          /\ \A t \in timers' \ timers :
               /\ last'.op = "add"
               /\ t.handle = adds'
               /\ timers' = timers \cup {t}
          /\ \A t \in timers \ timers' :
               /\ last'.op = "fire"
               /\ timers' = timers \ {t}]_vars
    /\ []<>(timers = {})

\* A timer has fired although its notification had been removed before
C16_Witness ==
    /\ last.op = "fire"
    /\ ~last.found
    /\ removed > 0
\* C18: a timer is due the notification's duration after the addNotification
\* call, and when it fires no notification with its id stays in the array,
\* whether or not an item on screen shows that notification.
C18_ExpiryIgnoresRendering ==
    [][/\ \A t \in timers' \ timers :
            t.due = now + DurationOf(notifications'[Len(notifications')])[1]
       /\ \A t \in timers \ timers' :
            \A i \in 1..Len(notifications') : notifications'[i].id # t.id]_vars

\* The sixth of six stacked notifications, which the window of five never
\* showed, has expired: the only removal so far was its timer's
C18_Witness ==
    /\ last.op = "fire"
    /\ last.found
    /\ removed = 1
    /\ adds = 6
    /\ calls = <<1, 2, 3, 4, 5>>
    /\ \A i \in Indices : VariantOf(notifications[i]) = Some("sooner")
====
